---- MODULE Spec2Model ----
(***************************************************************************)
(* Model of MemLeakTracker.cpp: the MemTracker registry (memTrackerPool,   *)
(* paused, critsec), the hooked operator new / operator delete forms, the  *)
(* re-entrant calls made by the registry's own storage, Pause / Resume,    *)
(* construction and the leak report produced by ~MemTracker.               *)
(***************************************************************************)
EXTENDS Integers, FiniteSets, Sequences, TLC

\* ---- bounds ----
NumThreads == 2        \* application threads calling the hooks
MaxAddr == 5           \* addresses the real allocator can hand out: 1..MaxAddr
MaxSize == 2           \* requested sizes: 1..MaxSize
MaxCalls == 3          \* operator new / operator delete calls made in one run
MaxToggles == 3        \* Pause / Resume calls made in one run

\* ---- program constants ----
NULL == 0              \* the null pointer
Main == 0              \* the thread that runs static construction and teardown
NoOwner == -1          \* critical section not owned

Workers == 1..NumThreads
All == {Main} \cup Workers
Addr == 1..MaxAddr
Sizes == 1..MaxSize

VARIABLES
  phase,           \* "uninit" | "active" | "reporting" | "terminated"
  paused,          \* MemTracker::paused
  memTrackerPool,  \* MemTracker::memTrackerPool : address -> AllocationInfo.size
  nodeOf,          \* address -> heap block holding that record (unordered_map node)
  storage,         \* heap block the map allocates when it is constructed
  heap,            \* blocks currently allocated by malloc
  brk,             \* highest block malloc has handed out so far
  lockOwner,       \* owner of critsec (NoOwner when free)
  lockCount,       \* recursion count of critsec
  pc,              \* per thread: position in the code
  p,               \* per thread: pointer argument of the outer hook call
  sz,              \* per thread: size argument of the outer hook call
  n,               \* per thread: pointer of the nested (re-entrant) hook call
  cont,            \* per thread: where the nested hook call returns to
  todo,            \* ~MemTracker: entries the range-for has not visited yet
  totalLeaked,     \* ~MemTracker: totalLeaked
  report,          \* lines written by ~MemTracker
  \* ---- history variables (observations, never read by the program) ----
  owned,           \* blocks returned by a hooked new and not yet passed to a hooked delete:
                   \*   address -> [size requested, rec: the call recorded it]
  userPaused,      \* TRUE iff the last Pause/Resume call that took effect was Pause
  pauseDepth,      \* Pause calls that took effect in a row, in the current or the last such row
  gLive,           \* address -> size: last tracked allocation not yet followed by a tracked deallocation
  entryPool,       \* registry contents when the current lock holder entered
  pauseSnap,       \* registry contents when Pause took effect
  path,            \* per thread: what the current call did
  diag,            \* per thread: untracked-free diagnostics written by the current call
  mret,            \* per thread: what malloc returned to the current operator new
  innerTracked,    \* TRUE once a nested hook call found tracking active
  calls,           \* number of operator new / operator delete calls made so far
  toggles,         \* number of Pause / Resume calls made so far
  emptyAtReport,   \* "unknown" | "yes" | "no": memTrackerPool.size() = 0 as read by ~MemTracker
  late             \* threads that entered a hook after ~MemTracker had started

trk == <<paused, memTrackerPool, nodeOf, storage>>
lck == <<lockOwner, lockCount>>
loc == <<pc, p, sz, n, cont>>
rep == <<todo, totalLeaked, report, emptyAtReport, late>>
hist == <<owned, userPaused, pauseDepth, gLive, entryPool, pauseSnap, path, diag,
          mret, innerTracked, calls, toggles>>
mem == <<heap, brk>>
vars == <<phase, trk, mem, lck, loc, rep, hist>>

\* ---- the registry as a map (std::unordered_map) ----
EmptyPool == [k \in {} |-> 0]

\* insert_or_assign: one record per key, the new size replaces the old one
InsertOrAssign(pool, a, s) == [k \in (DOMAIN pool) \cup {a} |-> IF k = a THEN s ELSE pool[k]]

\* erase(key)
Erase(pool, a) == [k \in (DOMAIN pool) \ {a} |-> pool[k]]

RECURSIVE SumOf(_, _)
SumOf(pool, keys) ==
  IF keys = {} THEN 0
  ELSE LET k == CHOOSE x \in keys : TRUE IN pool[k] + SumOf(pool, keys \ {k})

\* Seeded fault: malloc may hand out a block that is still allocated.
FreeAddrs_Live == {a \in Addr : a <= brk + 1}

\* ---- the real allocator ----
\* malloc returns a block that is not allocated: one that was freed before, or
\* a block never handed out yet.  Blocks never handed out are interchangeable,
\* so they are handed out in increasing order (brk is the highest one so far).
FreeAddrs == {a \in Addr \ heap : a <= brk + 1}

\* program allocations that will still need a registry node
PendingNodes ==
  Cardinality({t \in Workers :
                 pc[t] \in {"add_enter", "add_check", "add_insert", "in_malloc"} /\ p[t] # NULL})

\* results malloc may give to a program allocation: NULL (failure) or a free
\* block, as long as blocks remain for the registry's own nodes
MallocResults ==
  {NULL} \cup (IF Cardinality(Addr \ heap) >= PendingNodes + 2 THEN FreeAddrs ELSE {})

\* Seeded fault: the critical section excludes nobody.
CanEnter_NoExclusion(t) == TRUE

\* Seeded fault: the critical section is not recursive.
CanEnter_NonRecursive(t) == lockOwner = NoOwner

\* Seeded fault: EnterCriticalSection does not wait for the owner to leave.
EnterCS_NoWait(t) ==
  /\ lockOwner' = t
  /\ lockCount' = lockCount + 1

\* ---- critsec: a recursive critical section ----
CanEnter(t) == lockOwner = NoOwner \/ lockOwner = t

EnterCS(t) ==
  /\ CanEnter(t)
  /\ lockOwner' = t
  /\ lockCount' = lockCount + 1

LeaveCS(t) ==
  /\ lockCount' = lockCount - 1
  /\ lockOwner' = IF lockCount = 1 THEN NoOwner ELSE lockOwner

Init ==
  /\ phase = "uninit"
  /\ paused = TRUE
  /\ memTrackerPool = EmptyPool
  /\ nodeOf = EmptyPool
  /\ storage = NULL
  /\ heap = {}
  /\ brk = 0
  /\ lockOwner = NoOwner
  /\ lockCount = 0
  /\ pc = [t \in All |-> IF t = Main THEN "ctor_pool" ELSE "idle"]
  /\ p = [t \in All |-> NULL]
  /\ sz = [t \in All |-> 0]
  /\ n = [t \in All |-> NULL]
  /\ cont = [t \in All |-> "none"]
  /\ todo = {}
  /\ totalLeaked = 0
  /\ report = <<>>
  /\ emptyAtReport = "unknown"
  /\ late = {}
  /\ owned = EmptyPool
  /\ userPaused = FALSE
  /\ pauseDepth = 0
  /\ gLive = EmptyPool
  /\ entryPool = EmptyPool
  /\ pauseSnap = EmptyPool
  /\ path = [t \in All |-> "none"]
  /\ diag = [t \in All |-> 0]
  /\ mret = [t \in All |-> NULL]
  /\ innerTracked = FALSE
  /\ calls = 0
  /\ toggles = 0

\* ========================================================================
\* Nested hook calls: operator new / operator delete called by the map's
\* allocator while the registry is being constructed, mutated or destroyed.
\* ========================================================================

\* operator new (nested): p = malloc(size)
InnerNewMalloc(t) ==
  /\ pc[t] = "in_malloc"
  /\ \E a \in FreeAddrs :
       /\ heap' = heap \cup {a}
       /\ brk' = IF a > brk THEN a ELSE brk
       /\ n' = [n EXCEPT ![t] = a]
  /\ pc' = [pc EXCEPT ![t] = "in_add"]
  /\ UNCHANGED <<phase, trk, lck, p, sz, cont, rep, hist>>

\* AddPointer (nested), from Lock to ~Lock: critsec is entered (recursively when
\* this thread holds it already) and left again; if ( !paused && p ) the block
\* would be recorded like any other.  Then operator new returns p to the map.
InnerAddPointer(t) ==
  /\ pc[t] = "in_add"
  /\ CanEnter(t)
  /\ IF ~paused /\ n[t] # NULL
       THEN /\ memTrackerPool' = InsertOrAssign(memTrackerPool, n[t], 1)
            /\ innerTracked' = TRUE
       ELSE UNCHANGED <<memTrackerPool, innerTracked>>
  /\ pc' = [pc EXCEPT ![t] = cont[t]]
  /\ UNCHANGED <<phase, paused, nodeOf, storage, mem, lck, p, sz, n, cont, rep, owned,
                 userPaused, pauseDepth, gLive, entryPool, pauseSnap, path, diag, mret, calls, toggles>>

\* RemovePointer (nested), from Lock to ~Lock: if ( !paused && p ) the block
\* would be erased, with the diagnostic if it has no record
InnerRemovePointer(t) ==
  /\ pc[t] = "id_rem"
  /\ CanEnter(t)
  /\ IF ~paused /\ n[t] # NULL
       THEN /\ memTrackerPool' = Erase(memTrackerPool, n[t])
            /\ diag' = [diag EXCEPT ![t] = IF n[t] \in DOMAIN memTrackerPool THEN @ ELSE @ + 1]
            /\ innerTracked' = TRUE
       ELSE UNCHANGED <<memTrackerPool, diag, innerTracked>>
  /\ pc' = [pc EXCEPT ![t] = "id_free"]
  /\ UNCHANGED <<phase, paused, nodeOf, storage, mem, lck, p, sz, n, cont, rep, owned,
                 userPaused, pauseDepth, gLive, entryPool, pauseSnap, path, mret, calls, toggles>>

\* operator delete (nested): free( pointer ), return to the map
InnerFree(t) ==
  /\ pc[t] = "id_free"
  /\ heap' = heap \ {n[t]}
  /\ brk' = brk
  /\ n' = [n EXCEPT ![t] = NULL]
  /\ pc' = [pc EXCEPT ![t] = cont[t]]
  /\ UNCHANGED <<phase, trk, lck, p, sz, cont, rep, hist>>

\* ========================================================================
\* Construction of the global memTracker (static initialisation)
\* ========================================================================

\* Seeded fault: memTrackerPool is constructed while paused is not yet true
\* (paused declared below memTrackerPool).
CtorPool_WrongOrder ==
  /\ pc[Main] = "ctor_pool"
  /\ paused' = FALSE
  /\ pc' = [pc EXCEPT ![Main] = "in_malloc"]
  /\ cont' = [cont EXCEPT ![Main] = "ctor_store"]
  /\ UNCHANGED <<phase, memTrackerPool, nodeOf, storage, mem, lck, p, sz, n, rep, hist>>

\* member initialisers: critsec, paused = true, memTrackerPool (allocates)
CtorPool ==
  /\ pc[Main] = "ctor_pool"
  /\ pc' = [pc EXCEPT ![Main] = "in_malloc"]
  /\ cont' = [cont EXCEPT ![Main] = "ctor_store"]
  /\ UNCHANGED <<phase, trk, mem, lck, p, sz, n, rep, hist>>

CtorStore ==
  /\ pc[Main] = "ctor_store"
  /\ storage' = n[Main]
  /\ n' = [n EXCEPT ![Main] = NULL]
  /\ pc' = [pc EXCEPT ![Main] = "ctor_body"]
  /\ UNCHANGED <<phase, paused, memTrackerPool, nodeOf, mem, lck, p, sz, cont, rep, hist>>

\* MemTracker() { paused = false; }
CtorBody ==
  /\ pc[Main] = "ctor_body"
  /\ paused' = FALSE
  /\ phase' = "active"
  /\ pc' = [pc EXCEPT ![Main] = "run"]
  /\ UNCHANGED <<memTrackerPool, nodeOf, storage, mem, lck, p, sz, n, cont, rep, hist>>

\* ========================================================================
\* operator new (all four forms): p = malloc(size); AddPointer(p, size); return p
\* ========================================================================

NewMalloc(t) ==
  /\ phase = "active"
  /\ pc[t] = "idle"
  /\ calls < MaxCalls
  /\ calls' = calls + 1
  /\ \E s \in Sizes, a \in MallocResults :
       /\ heap' = IF a = NULL THEN heap ELSE heap \cup {a}
       /\ brk' = IF a > brk THEN a ELSE brk
       /\ p' = [p EXCEPT ![t] = a]
       /\ sz' = [sz EXCEPT ![t] = s]
       /\ mret' = [mret EXCEPT ![t] = a]
  /\ pc' = [pc EXCEPT ![t] = "add_enter"]
  /\ UNCHANGED <<phase, trk, lck, n, cont, rep, owned, userPaused, pauseDepth, gLive, entryPool,
                 pauseSnap, path, diag, innerTracked, toggles>>

\* Lock cs( critsec )
AddEnter(t) ==
  /\ pc[t] = "add_enter"
  /\ EnterCS(t)
  /\ entryPool' = memTrackerPool
  /\ pc' = [pc EXCEPT ![t] = "add_check"]
  /\ UNCHANGED <<phase, trk, mem, p, sz, n, cont, rep, owned, userPaused, pauseDepth, gLive, pauseSnap,
                 path, diag, mret, innerTracked, calls, toggles>>

\* Seeded fault: AddPointer does not suppress tracking around the insertion.
AddCheck_NoSuppress(t) ==
  /\ pc[t] = "add_check"
  /\ IF ~paused /\ p[t] # NULL
       THEN /\ pc' = [pc EXCEPT ![t] = "add_insert"]
            /\ path' = path
       ELSE /\ pc' = [pc EXCEPT ![t] = "add_leave"]
            /\ path' = [path EXCEPT ![t] = "skip"]
  /\ gLive' = IF phase = "active" /\ ~userPaused /\ p[t] # NULL
                THEN InsertOrAssign(gLive, p[t], sz[t]) ELSE gLive
  /\ UNCHANGED <<phase, trk, mem, lck, p, sz, n, cont, rep, owned, userPaused, pauseDepth, entryPool,
                 pauseSnap, diag, mret, innerTracked, calls, toggles>>

\* Seeded fault: AddPointer does not test the pointer for null.
AddCheck_NoNullTest(t) ==
  /\ pc[t] = "add_check"
  /\ IF ~paused
       THEN /\ paused' = TRUE
            /\ pc' = [pc EXCEPT ![t] = "add_insert"]
            /\ path' = path
       ELSE /\ paused' = paused
            /\ pc' = [pc EXCEPT ![t] = "add_leave"]
            /\ path' = [path EXCEPT ![t] = "skip"]
  /\ gLive' = IF phase = "active" /\ ~userPaused /\ p[t] # NULL
                THEN InsertOrAssign(gLive, p[t], sz[t]) ELSE gLive
  /\ UNCHANGED <<phase, memTrackerPool, nodeOf, storage, mem, lck, p, sz, n, cont, rep,
                 owned, userPaused, pauseDepth, entryPool, pauseSnap, diag, mret, innerTracked, calls,
                 toggles>>

\* Seeded fault: AddPointer resumes tracking also when it skipped the insertion.
AddCheck_CancelsPause(t) ==
  /\ pc[t] = "add_check"
  /\ IF ~paused /\ p[t] # NULL
       THEN /\ paused' = TRUE
            /\ pc' = [pc EXCEPT ![t] = "add_insert"]
            /\ path' = path
       ELSE /\ paused' = FALSE
            /\ pc' = [pc EXCEPT ![t] = "add_leave"]
            /\ path' = [path EXCEPT ![t] = "skip"]
  /\ gLive' = IF phase = "active" /\ ~userPaused /\ p[t] # NULL
                THEN InsertOrAssign(gLive, p[t], sz[t]) ELSE gLive
  /\ UNCHANGED <<phase, memTrackerPool, nodeOf, storage, mem, lck, p, sz, n, cont, rep,
                 owned, userPaused, pauseDepth, entryPool, pauseSnap, diag, mret, innerTracked, calls,
                 toggles>>

\* if ( !paused && p ) { paused = true; ...
AddCheck(t) ==
  /\ pc[t] = "add_check"
  /\ IF ~paused /\ p[t] # NULL
       THEN /\ paused' = TRUE
            /\ pc' = [pc EXCEPT ![t] = "add_insert"]
            /\ path' = path
       ELSE /\ paused' = paused
            /\ pc' = [pc EXCEPT ![t] = "add_leave"]
            /\ path' = [path EXCEPT ![t] = "skip"]
  /\ gLive' = IF phase = "active" /\ ~userPaused /\ p[t] # NULL
                THEN InsertOrAssign(gLive, p[t], sz[t]) ELSE gLive
  /\ UNCHANGED <<phase, memTrackerPool, nodeOf, storage, mem, lck, p, sz, n, cont, rep,
                 owned, userPaused, pauseDepth, entryPool, pauseSnap, diag, mret, innerTracked, calls,
                 toggles>>

\* Seeded fault: an existing record is kept as it is (insert, not insert_or_assign).
AddInsert_KeepsOld(t) ==
  /\ pc[t] = "add_insert"
  /\ IF p[t] \in DOMAIN memTrackerPool
       THEN /\ pc' = [pc EXCEPT ![t] = "add_resume"]
            /\ path' = [path EXCEPT ![t] = "over"]
            /\ cont' = cont
       ELSE /\ pc' = [pc EXCEPT ![t] = "in_malloc"]
            /\ path' = path
            /\ cont' = [cont EXCEPT ![t] = "add_link"]
  /\ UNCHANGED <<phase, trk, mem, lck, p, sz, n, rep, owned, userPaused, pauseDepth, gLive, entryPool,
                 pauseSnap, diag, mret, innerTracked, calls, toggles>>

\* memTrackerPool.insert_or_assign( p, AllocationInfo( size ) ): an existing
\* record is assigned in place, a new one needs a node from operator new
AddInsert(t) ==
  /\ pc[t] = "add_insert"
  /\ IF p[t] \in DOMAIN memTrackerPool
       THEN /\ memTrackerPool' = InsertOrAssign(memTrackerPool, p[t], sz[t])
            /\ pc' = [pc EXCEPT ![t] = "add_resume"]
            /\ path' = [path EXCEPT ![t] = "over"]
            /\ cont' = cont
       ELSE /\ memTrackerPool' = memTrackerPool
            /\ pc' = [pc EXCEPT ![t] = "in_malloc"]
            /\ path' = path
            /\ cont' = [cont EXCEPT ![t] = "add_link"]
  /\ UNCHANGED <<phase, paused, nodeOf, storage, mem, lck, p, sz, n, rep, owned,
                 userPaused, pauseDepth, gLive, entryPool, pauseSnap, diag, mret, innerTracked, calls,
                 toggles>>

\* the node is linked into the map
AddLink(t) ==
  /\ pc[t] = "add_link"
  /\ memTrackerPool' = InsertOrAssign(memTrackerPool, p[t], sz[t])
  /\ nodeOf' = InsertOrAssign(nodeOf, p[t], n[t])
  /\ n' = [n EXCEPT ![t] = NULL]
  /\ path' = [path EXCEPT ![t] = "new"]
  /\ pc' = [pc EXCEPT ![t] = "add_resume"]
  /\ UNCHANGED <<phase, paused, storage, mem, lck, p, sz, cont, rep, owned, userPaused, pauseDepth,
                 gLive, entryPool, pauseSnap, diag, mret, innerTracked, calls, toggles>>

\* Seeded fault: AddPointer forgets to resume tracking.
AddResume_NoResume(t) ==
  /\ pc[t] = "add_resume"
  /\ pc' = [pc EXCEPT ![t] = "add_leave"]
  /\ UNCHANGED <<phase, trk, mem, lck, p, sz, n, cont, rep, hist>>

\* paused = false; }
AddResume(t) ==
  /\ pc[t] = "add_resume"
  /\ paused' = FALSE
  /\ pc' = [pc EXCEPT ![t] = "add_leave"]
  /\ UNCHANGED <<phase, memTrackerPool, nodeOf, storage, mem, lck, p, sz, n, cont, rep,
                 hist>>

\* ~Lock; return p
AddLeave(t) ==
  /\ pc[t] = "add_leave"
  /\ LeaveCS(t)
  /\ entryPool' = EmptyPool
  /\ owned' = IF p[t] = NULL THEN owned
               ELSE InsertOrAssign(owned, p[t], [size |-> sz[t], rec |-> path[t] \in {"new", "over"}])
  /\ path' = [path EXCEPT ![t] = "none"]
  /\ mret' = [mret EXCEPT ![t] = NULL]
  /\ p' = [p EXCEPT ![t] = NULL]
  /\ sz' = [sz EXCEPT ![t] = 0]
  /\ pc' = [pc EXCEPT ![t] = "idle"]
  /\ UNCHANGED <<phase, trk, mem, n, cont, rep, userPaused, pauseDepth, gLive, pauseSnap, diag,
                 innerTracked, calls, toggles>>

\* ========================================================================
\* operator delete (all four forms): RemovePointer(pointer); free(pointer)
\* ========================================================================

\* the program deletes a block it holds, or the null pointer
DelCall(t) ==
  /\ phase = "active"
  /\ pc[t] = "idle"
  /\ calls < MaxCalls
  /\ calls' = calls + 1
  /\ \E a \in (DOMAIN owned) \cup {NULL} :
       /\ p' = [p EXCEPT ![t] = a]
       /\ owned' = Erase(owned, a)
  /\ pc' = [pc EXCEPT ![t] = "rem_enter"]
  /\ UNCHANGED <<phase, trk, mem, lck, sz, n, cont, rep, userPaused, pauseDepth, gLive, entryPool,
                 pauseSnap, path, diag, mret, innerTracked, toggles>>

\* Lock cs( critsec )
RemEnter(t) ==
  /\ pc[t] = "rem_enter"
  /\ EnterCS(t)
  /\ entryPool' = memTrackerPool
  /\ pc' = [pc EXCEPT ![t] = "rem_check"]
  /\ UNCHANGED <<phase, trk, mem, p, sz, n, cont, rep, owned, userPaused, pauseDepth, gLive, pauseSnap,
                 path, diag, mret, innerTracked, calls, toggles>>

\* Seeded fault: RemovePointer never finds tracking active.
RemCheck_AlwaysSkip(t) ==
  /\ pc[t] = "rem_check"
  /\ pc' = [pc EXCEPT ![t] = "rem_leave"]
  /\ path' = [path EXCEPT ![t] = "skip"]
  /\ gLive' = IF phase = "active" /\ ~userPaused /\ p[t] # NULL
                THEN Erase(gLive, p[t]) ELSE gLive
  /\ UNCHANGED <<phase, trk, mem, lck, p, sz, n, cont, rep, owned, userPaused, pauseDepth, entryPool,
                 pauseSnap, diag, mret, innerTracked, calls, toggles>>

\* Seeded fault: RemovePointer does not test the pointer for null.
RemCheck_NoNullTest(t) ==
  /\ pc[t] = "rem_check"
  /\ IF ~paused
       THEN /\ paused' = TRUE
            /\ pc' = [pc EXCEPT ![t] = "rem_erase"]
            /\ path' = path
       ELSE /\ paused' = paused
            /\ pc' = [pc EXCEPT ![t] = "rem_leave"]
            /\ path' = [path EXCEPT ![t] = "skip"]
  /\ gLive' = IF phase = "active" /\ ~userPaused /\ p[t] # NULL
                THEN Erase(gLive, p[t]) ELSE gLive
  /\ UNCHANGED <<phase, memTrackerPool, nodeOf, storage, mem, lck, p, sz, n, cont, rep,
                 owned, userPaused, pauseDepth, entryPool, pauseSnap, diag, mret, innerTracked, calls,
                 toggles>>

\* if ( !paused && p ) { paused = true; ...
RemCheck(t) ==
  /\ pc[t] = "rem_check"
  /\ IF ~paused /\ p[t] # NULL
       THEN /\ paused' = TRUE
            /\ pc' = [pc EXCEPT ![t] = "rem_erase"]
            /\ path' = path
       ELSE /\ paused' = paused
            /\ pc' = [pc EXCEPT ![t] = "rem_leave"]
            /\ path' = [path EXCEPT ![t] = "skip"]
  /\ gLive' = IF phase = "active" /\ ~userPaused /\ p[t] # NULL
                THEN Erase(gLive, p[t]) ELSE gLive
  /\ UNCHANGED <<phase, memTrackerPool, nodeOf, storage, mem, lck, p, sz, n, cont, rep,
                 owned, userPaused, pauseDepth, entryPool, pauseSnap, diag, mret, innerTracked, calls,
                 toggles>>

\* Seeded fault: RemovePointer leaves the record in the registry.
RemErase_NoErase(t) ==
  /\ pc[t] = "rem_erase"
  /\ pc' = [pc EXCEPT ![t] = "rem_resume"]
  /\ path' = [path EXCEPT ![t] = IF p[t] \in DOMAIN memTrackerPool THEN "hit" ELSE "miss"]
  /\ diag' = [diag EXCEPT ![t] = IF p[t] \in DOMAIN memTrackerPool THEN @ ELSE @ + 1]
  /\ UNCHANGED <<phase, trk, mem, lck, p, sz, n, cont, rep, owned, userPaused, pauseDepth, gLive,
                 entryPool, pauseSnap, mret, innerTracked, calls, toggles>>

\* size_t erased = memTrackerPool.erase( p ); if ( !erased ) OutputDebugString(...)
\* erasing a record releases its node through operator delete
RemErase(t) ==
  /\ pc[t] = "rem_erase"
  /\ IF p[t] \in DOMAIN memTrackerPool
       THEN /\ memTrackerPool' = Erase(memTrackerPool, p[t])
            /\ nodeOf' = Erase(nodeOf, p[t])
            /\ n' = [n EXCEPT ![t] = nodeOf[p[t]]]
            /\ cont' = [cont EXCEPT ![t] = "rem_resume"]
            /\ pc' = [pc EXCEPT ![t] = "id_rem"]
            /\ path' = [path EXCEPT ![t] = "hit"]
            /\ diag' = diag
       ELSE /\ UNCHANGED <<memTrackerPool, nodeOf, n, cont>>
            /\ pc' = [pc EXCEPT ![t] = "rem_resume"]
            /\ path' = [path EXCEPT ![t] = "miss"]
            /\ diag' = [diag EXCEPT ![t] = @ + 1]
  /\ UNCHANGED <<phase, paused, storage, mem, lck, p, sz, rep, owned, userPaused, pauseDepth, gLive,
                 entryPool, pauseSnap, mret, innerTracked, calls, toggles>>

\* Seeded fault: RemovePointer forgets to resume tracking.
RemResume_NoResume(t) ==
  /\ pc[t] = "rem_resume"
  /\ pc' = [pc EXCEPT ![t] = "rem_leave"]
  /\ UNCHANGED <<phase, trk, mem, lck, p, sz, n, cont, rep, hist>>

\* paused = false; }
RemResume(t) ==
  /\ pc[t] = "rem_resume"
  /\ paused' = FALSE
  /\ pc' = [pc EXCEPT ![t] = "rem_leave"]
  /\ UNCHANGED <<phase, memTrackerPool, nodeOf, storage, mem, lck, p, sz, n, cont, rep,
                 hist>>

\* ~Lock
RemLeave(t) ==
  /\ pc[t] = "rem_leave"
  /\ LeaveCS(t)
  /\ entryPool' = EmptyPool
  /\ pc' = [pc EXCEPT ![t] = "del_free"]
  /\ UNCHANGED <<phase, trk, mem, p, sz, n, cont, rep, owned, userPaused, pauseDepth, gLive, pauseSnap,
                 path, diag, mret, innerTracked, calls, toggles>>

\* free( pointer )
DelFree(t) ==
  /\ pc[t] = "del_free"
  /\ heap' = heap \ {p[t]}
  /\ brk' = brk
  /\ p' = [p EXCEPT ![t] = NULL]
  /\ diag' = [diag EXCEPT ![t] = 0]
  /\ path' = [path EXCEPT ![t] = "none"]
  /\ pc' = [pc EXCEPT ![t] = "idle"]
  /\ UNCHANGED <<phase, trk, lck, sz, n, cont, rep, owned, userPaused, pauseDepth, gLive, entryPool,
                 pauseSnap, mret, innerTracked, calls, toggles>>

\* ========================================================================
\* Pause / Resume
\* ========================================================================

PauseCall(t) ==
  /\ phase = "active"
  /\ pc[t] = "idle"
  /\ toggles < MaxToggles
  /\ toggles' = toggles + 1
  /\ pc' = [pc EXCEPT ![t] = "pause_enter"]
  /\ UNCHANGED <<phase, trk, mem, lck, p, sz, n, cont, rep, owned, userPaused, pauseDepth, gLive,
                 entryPool, pauseSnap, path, diag, mret, innerTracked, calls>>

PauseEnter(t) ==
  /\ pc[t] = "pause_enter"
  /\ EnterCS(t)
  /\ pc' = [pc EXCEPT ![t] = "pause_set"]
  /\ UNCHANGED <<phase, trk, mem, p, sz, n, cont, rep, hist>>

\* Seeded fault: Pause does not set the flag.
PauseSet_NoWrite(t) ==
  /\ pc[t] = "pause_set"
  /\ userPaused' = TRUE
  /\ pauseDepth' = IF userPaused THEN pauseDepth + 1 ELSE 1
  /\ pauseSnap' = IF userPaused THEN pauseSnap ELSE memTrackerPool
  /\ LeaveCS(t)
  /\ pc' = [pc EXCEPT ![t] = "idle"]
  /\ UNCHANGED <<phase, trk, mem, p, sz, n, cont, rep, owned, gLive, entryPool, path, diag,
                 mret, innerTracked, calls, toggles>>

\* paused = true; ~Lock
PauseSet(t) ==
  /\ pc[t] = "pause_set"
  /\ paused' = TRUE
  /\ userPaused' = TRUE
  /\ pauseDepth' = IF userPaused THEN pauseDepth + 1 ELSE 1
  /\ pauseSnap' = IF userPaused THEN pauseSnap ELSE memTrackerPool
  /\ LeaveCS(t)
  /\ pc' = [pc EXCEPT ![t] = "idle"]
  /\ UNCHANGED <<phase, memTrackerPool, nodeOf, storage, mem, p, sz, n, cont, rep, owned,
                 gLive, entryPool, path, diag, mret, innerTracked, calls, toggles>>


ResumeCall(t) ==
  /\ phase = "active"
  /\ pc[t] = "idle"
  /\ toggles < MaxToggles
  /\ toggles' = toggles + 1
  /\ pc' = [pc EXCEPT ![t] = "resume_enter"]
  /\ UNCHANGED <<phase, trk, mem, lck, p, sz, n, cont, rep, owned, userPaused, pauseDepth, gLive,
                 entryPool, pauseSnap, path, diag, mret, innerTracked, calls>>

ResumeEnter(t) ==
  /\ pc[t] = "resume_enter"
  /\ EnterCS(t)
  /\ pc' = [pc EXCEPT ![t] = "resume_set"]
  /\ UNCHANGED <<phase, trk, mem, p, sz, n, cont, rep, hist>>

\* Seeded fault: Resume undoes one Pause only (a counting pause).
ResumeSet_Counting(t) ==
  /\ pc[t] = "resume_set"
  /\ paused' = (pauseDepth >= 2)
  /\ userPaused' = FALSE
  /\ pauseDepth' = pauseDepth
  /\ pauseSnap' = EmptyPool
  /\ LeaveCS(t)
  /\ pc' = [pc EXCEPT ![t] = "idle"]
  /\ UNCHANGED <<phase, memTrackerPool, nodeOf, storage, mem, p, sz, n, cont, rep, owned,
                 gLive, entryPool, path, diag, mret, innerTracked, calls, toggles>>

\* paused = false; ~Lock
ResumeSet(t) ==
  /\ pc[t] = "resume_set"
  /\ paused' = FALSE
  /\ userPaused' = FALSE
  /\ pauseDepth' = pauseDepth
  /\ pauseSnap' = EmptyPool
  /\ LeaveCS(t)
  /\ pc' = [pc EXCEPT ![t] = "idle"]
  /\ UNCHANGED <<phase, memTrackerPool, nodeOf, storage, mem, p, sz, n, cont, rep, owned,
                 gLive, entryPool, path, diag, mret, innerTracked, calls, toggles>>


\* ========================================================================
\* ~MemTracker and the destruction of its members
\* ========================================================================

Line(k, v) == [kind |-> k, val |-> v]

\* paused = true (written without taking critsec)
BeginTeardown ==
  /\ pc[Main] = "run"
  /\ phase = "active"
  /\ paused' = TRUE
  /\ phase' = "reporting"
  /\ \A t \in Workers : pc[t] = "idle"
  /\ pc' = [pc EXCEPT ![Main] = "dtor_check"]
  /\ UNCHANGED <<memTrackerPool, nodeOf, storage, mem, lck, p, sz, n, cont, rep, owned,
                 userPaused, pauseDepth, gLive, entryPool, pauseSnap, path, diag, mret, innerTracked,
                 calls, toggles>>

\* Seeded fault: the report takes a registry with one record for an empty one.
DtorCheck_OffByOne ==
  /\ pc[Main] = "dtor_check"
  /\ IF Cardinality(DOMAIN memTrackerPool) > 1
       THEN /\ report' = Append(report, Line("start", 0))
            /\ todo' = DOMAIN memTrackerPool
            /\ pc' = [pc EXCEPT ![Main] = "dtor_loop"]
       ELSE /\ report' = Append(report, Line("none", 0))
            /\ todo' = {}
            /\ pc' = [pc EXCEPT ![Main] = "dtor_clear"]
  /\ totalLeaked' = 0
  /\ emptyAtReport' = IF DOMAIN memTrackerPool = {} THEN "yes" ELSE "no"
  /\ UNCHANGED <<phase, trk, mem, lck, p, sz, n, cont, late, hist>>

\* if ( memTrackerPool.size() ) "--- Memleaks start here ---" else "No memleaks found."
DtorCheck ==
  /\ pc[Main] = "dtor_check"
  /\ IF DOMAIN memTrackerPool # {}
       THEN /\ report' = Append(report, Line("start", 0))
            /\ todo' = DOMAIN memTrackerPool
            /\ pc' = [pc EXCEPT ![Main] = "dtor_loop"]
       ELSE /\ report' = Append(report, Line("none", 0))
            /\ todo' = {}
            /\ pc' = [pc EXCEPT ![Main] = "dtor_clear"]
  /\ totalLeaked' = 0
  /\ emptyAtReport' = IF DOMAIN memTrackerPool = {} THEN "yes" ELSE "no"
  /\ UNCHANGED <<phase, trk, mem, lck, p, sz, n, cont, late, hist>>

\* Seeded fault: the loop does not add the entry's size to totalLeaked.
DtorLeak_NoSum ==
  /\ pc[Main] = "dtor_loop"
  /\ \E k \in todo :
       \E s \in (IF k \in DOMAIN memTrackerPool THEN {memTrackerPool[k]} ELSE Sizes) :
         /\ report' = Append(report, Line("leak", s))
         /\ totalLeaked' = totalLeaked
         /\ todo' = todo \ {k}
  /\ UNCHANGED <<phase, trk, mem, lck, loc, emptyAtReport, late, hist>>

\* for ( auto& entry : memTrackerPool ): "Leak: %zu bytes", totalLeaked += size.
\* The loop takes no lock: an entry erased meanwhile is read through a dangling
\* reference, so any size may be printed for it.
DtorLeak ==
  /\ pc[Main] = "dtor_loop"
  /\ \E k \in todo :
       \E s \in (IF k \in DOMAIN memTrackerPool THEN {memTrackerPool[k]} ELSE Sizes) :
         /\ report' = Append(report, Line("leak", s))
         /\ totalLeaked' = totalLeaked + s
         /\ todo' = todo \ {k}
  /\ UNCHANGED <<phase, trk, mem, lck, loc, emptyAtReport, late, hist>>

\* "Total bytes leaked: %zu"
DtorTotal ==
  /\ pc[Main] = "dtor_loop"
  /\ todo = {}
  /\ report' = Append(report, Line("total", totalLeaked))
  /\ pc' = [pc EXCEPT ![Main] = "dtor_clear"]
  /\ UNCHANGED <<phase, trk, mem, lck, p, sz, n, cont, todo, totalLeaked, emptyAtReport,
                 late, hist>>

\* ~unordered_map: every node, then the table, goes back through operator delete
DtorClear ==
  /\ pc[Main] = "dtor_clear"
  /\ IF DOMAIN nodeOf # {}
       THEN \E k \in DOMAIN nodeOf :
              /\ memTrackerPool' = Erase(memTrackerPool, k)
              /\ nodeOf' = Erase(nodeOf, k)
              /\ n' = [n EXCEPT ![Main] = nodeOf[k]]
              /\ cont' = [cont EXCEPT ![Main] = "dtor_clear"]
              /\ storage' = storage
       ELSE /\ memTrackerPool' = EmptyPool
            /\ nodeOf' = nodeOf
            /\ n' = [n EXCEPT ![Main] = storage]
            /\ cont' = [cont EXCEPT ![Main] = "dtor_done"]
            /\ storage' = NULL
  /\ pc' = [pc EXCEPT ![Main] = "id_rem"]
  /\ UNCHANGED <<phase, paused, mem, lck, p, sz, rep, hist>>

\* ~Mutex: DeleteCriticalSection; the process ends
DtorDone ==
  /\ pc[Main] = "dtor_done"
  /\ phase' = "terminated"
  /\ pc' = [pc EXCEPT ![Main] = "done"]
  /\ UNCHANGED <<trk, mem, lck, p, sz, n, cont, rep, hist>>

\* ========================================================================
\* The program
\* ========================================================================

InnerStep(t) ==
  \/ InnerNewMalloc(t)
  \/ InnerAddPointer(t)
  \/ InnerRemovePointer(t)
  \/ InnerFree(t)

\* a thread enters a hook or the Pause / Resume interface.  The application's
\* threads call in between construction and teardown: memTracker is constructed
\* before everything else and torn down when no call is in flight any more.
CallStep(t) ==
  \/ NewMalloc(t)
  \/ DelCall(t)
  \/ PauseCall(t)
  \/ ResumeCall(t)

\* a thread acquires critsec
EnterStep(t) ==
  \/ AddEnter(t)
  \/ RemEnter(t)
  \/ PauseEnter(t)
  \/ ResumeEnter(t)
  \/ InnerAddPointer(t)
  \/ InnerRemovePointer(t)

\* a thread continues a call it is in
BodyStep(t) ==
  \/ AddCheck(t)
  \/ AddInsert(t)
  \/ AddLink(t)
  \/ AddResume(t)
  \/ AddLeave(t)
  \/ RemCheck(t)
  \/ RemErase(t)
  \/ RemResume(t)
  \/ RemLeave(t)
  \/ DelFree(t)
  \/ PauseSet(t)
  \/ ResumeSet(t)
  \/ InnerNewMalloc(t)
  \/ InnerFree(t)

WorkerStep(t) == CallStep(t) \/ EnterStep(t) \/ BodyStep(t)

MainStep ==
  \/ CtorPool
  \/ CtorStore
  \/ CtorBody
  \/ BeginTeardown
  \/ DtorCheck
  \/ DtorLeak
  \/ DtorTotal
  \/ DtorClear
  \/ DtorDone
  \/ InnerStep(Main)

Next == MainStep \/ \E t \in Workers : WorkerStep(t)

Spec == Init /\ [][Next]_vars

TypeOK ==
  /\ phase \in {"uninit", "active", "reporting", "terminated"}
  /\ paused \in BOOLEAN
  /\ DOMAIN memTrackerPool \subseteq Addr
  /\ heap \subseteq 1..brk
  /\ brk \in 0..MaxAddr
  /\ lockOwner \in All \cup {NoOwner}
  /\ lockCount \in 0..1
  /\ (lockOwner = NoOwner) = (lockCount = 0)

\* ========================================================================
\* Fair scheduling: the threads that are inside a call are not all suspended
\* for ever (the weakest assumption: no thread is promised the lock)
\* ========================================================================

\* some thread that is inside a call takes its next step
Continue == \E t \in Workers : EnterStep(t) \/ BodyStep(t)

FairSpec == Spec /\ WF_vars(Continue)

\* ========================================================================
\* Process exit while other threads are still running: the destructor of the
\* global memTracker starts with hook calls in flight, and further calls to
\* operator new / operator delete arrive while it runs.  Pause and Resume are
\* not called in these runs.
\* ========================================================================

\* ~MemTracker: paused = true (written without taking critsec), at any moment
RacyBeginTeardown ==
  /\ pc[Main] = "run"
  /\ phase = "active"
  /\ paused' = TRUE
  /\ phase' = "reporting"
  /\ pc' = [pc EXCEPT ![Main] = "dtor_check"]
  /\ UNCHANGED <<memTrackerPool, nodeOf, storage, mem, lck, p, sz, n, cont, rep, hist>>

\* operator new entered after ~MemTracker has started: p = malloc(size)
LateNewMalloc(t) ==
  /\ phase = "reporting"
  /\ pc[t] = "idle"
  /\ calls < MaxCalls
  /\ calls' = calls + 1
  /\ late' = late \cup {t}
  /\ \E s \in Sizes, a \in MallocResults :
       /\ heap' = IF a = NULL THEN heap ELSE heap \cup {a}
       /\ brk' = IF a > brk THEN a ELSE brk
       /\ p' = [p EXCEPT ![t] = a]
       /\ sz' = [sz EXCEPT ![t] = s]
       /\ mret' = [mret EXCEPT ![t] = a]
  /\ pc' = [pc EXCEPT ![t] = "add_enter"]
  /\ UNCHANGED <<phase, trk, lck, n, cont, todo, totalLeaked, report, emptyAtReport, owned,
                 userPaused, pauseDepth, gLive, entryPool, pauseSnap, path, diag, innerTracked, toggles>>

\* operator delete entered after ~MemTracker has started
LateDelCall(t) ==
  /\ phase = "reporting"
  /\ pc[t] = "idle"
  /\ calls < MaxCalls
  /\ calls' = calls + 1
  /\ late' = late \cup {t}
  /\ \E a \in (DOMAIN owned) \cup {NULL} :
       /\ p' = [p EXCEPT ![t] = a]
       /\ owned' = Erase(owned, a)
  /\ pc' = [pc EXCEPT ![t] = "rem_enter"]
  /\ UNCHANGED <<phase, trk, mem, lck, sz, n, cont, todo, totalLeaked, report, emptyAtReport,
                 userPaused, pauseDepth, gLive, entryPool, pauseSnap, path, diag, mret, innerTracked,
                 toggles>>

RaceCallStep(t) ==
  \/ NewMalloc(t)
  \/ DelCall(t)
  \/ LateNewMalloc(t)
  \/ LateDelCall(t)

RaceWorkerStep(t) ==
  \/ RaceCallStep(t)
  \/ AddEnter(t) \/ AddCheck(t) \/ AddInsert(t) \/ AddLink(t) \/ AddResume(t) \/ AddLeave(t)
  \/ RemEnter(t) \/ RemCheck(t) \/ RemErase(t) \/ RemResume(t) \/ RemLeave(t) \/ DelFree(t)
  \/ InnerStep(t)

RaceMainStep ==
  \/ CtorPool
  \/ CtorStore
  \/ CtorBody
  \/ RacyBeginTeardown
  \/ DtorCheck
  \/ DtorLeak
  \/ DtorTotal
  \/ DtorClear
  \/ DtorDone
  \/ InnerStep(Main)

RaceNext == RaceMainStep \/ \E t \in Workers : RaceWorkerStep(t)

RaceSpec == Init /\ [][RaceNext]_vars

\* ========================================================================
\* Properties
\* ========================================================================

AddRemovePcs ==
  {"add_enter", "add_check", "add_insert", "add_link", "add_resume", "add_leave",
   "rem_enter", "rem_check", "rem_erase", "rem_resume", "rem_leave",
   "in_malloc", "in_add", "id_rem", "id_free"}

NoAddRemoveInProgress == \A t \in Workers : pc[t] \notin AddRemovePcs

AllIdle == \A t \in Workers : pc[t] = "idle"

ReportDone == pc[Main] \in {"dtor_clear", "dtor_done", "done"}

LeakLines(s) == {i \in DOMAIN report : report[i].kind = "leak" /\ report[i].val = s}

TotalLines == {i \in DOMAIN report : report[i].kind = "total"}

\* blocks the program still holds whose allocation was recorded
Unmatched == {a \in DOMAIN owned : owned[a].rec}

\* C1 (as stated): whenever no Add/Remove is in progress, the registry's keys are
\* exactly the addresses returned by hooked allocations and not yet passed to a
\* hooked deallocation, whatever Pause and Resume calls were interleaved.
C1_Original ==
  (phase = "active" /\ NoAddRemoveInProgress) => DOMAIN memTrackerPool = DOMAIN owned

\* C1 (amended): whenever no Add/Remove is in progress, the registry's keys are
\* exactly the addresses whose most recent hooked program allocation or
\* deallocation made while tracking was not paused was an allocation; calls
\* made between Pause and Resume are not reflected in the registry.
C1_Thm ==
  (phase = "active" /\ NoAddRemoveInProgress) => DOMAIN memTrackerPool = DOMAIN gLive

\* a quiet state after a Pause window: the registry differs from the held blocks
C1_Wit ==
  /\ phase = "active"
  /\ NoAddRemoveInProgress
  /\ DOMAIN memTrackerPool # {}
  /\ DOMAIN memTrackerPool # DOMAIN owned

\* C2 (as stated): the report has exactly one Leak line, with the requested
\* size, per allocation that was recorded and never matched by a deallocation,
\* and the Total line is the sum of those sizes.
C2_Original ==
  ReportDone =>
    /\ \A s \in Sizes :
         Cardinality(LeakLines(s)) = Cardinality({a \in Unmatched : owned[a].size = s})
    /\ \A i \in TotalLines :
         report[i].val = SumOf([a \in Unmatched |-> owned[a].size], Unmatched)

\* C2 (amended): the report has exactly one Leak line per record left by the
\* tracked calls: per address whose last allocation made while tracking was not
\* paused was not followed by a deallocation made while tracking was not
\* paused, with the size of that allocation; the Total line is their sum.
C2_Thm ==
  ReportDone =>
    /\ \A s \in Sizes :
         Cardinality(LeakLines(s)) = Cardinality({a \in DOMAIN gLive : gLive[a] = s})
    /\ (gLive # EmptyPool) => TotalLines # {}
    /\ \A i \in TotalLines : report[i].val = SumOf(gLive, DOMAIN gLive)

\* a finished report with two leak lines and their total
C2_Wit ==
  /\ pc[Main] = "done"
  /\ Cardinality(DOMAIN gLive) = 2
  /\ Len(report) = 4
  /\ report[4] = Line("total", SumOf(gLive, DOMAIN gLive))

C4_Thm ==
  \A t \in Workers :
    (phase = "active" /\ path[t] = "miss") =>
      /\ diag[t] = 1
      /\ pc[t] \in {"rem_resume", "rem_leave", "del_free"}
      /\ pc[t] \in {"rem_resume", "rem_leave"} => (memTrackerPool = entryPool /\ lockOwner = t)
      /\ pc[t] = "rem_leave" => ~paused

C4_Wit ==
  \E t \in Workers :
    /\ phase = "active"
    /\ pc[t] = "rem_leave"
    /\ path[t] = "miss"
    /\ p[t] # NULL
    /\ p[t] \in heap

\* C5: from the moment Pause takes effect until the next Resume takes effect the
\* registry keeps the contents it had at Pause, whatever Add/Remove calls are
\* made; once Resume has taken effect, Add and Remove find tracking active.
C5_Thm ==
  phase = "active" =>
    /\ userPaused => (paused /\ memTrackerPool = pauseSnap)
    /\ \A t \in Workers :
         (pc[t] \in {"add_check", "rem_check"} /\ ~userPaused) => ~paused

\* an Add of a real block returning unrecorded inside a Pause window that
\* started with a non-empty registry
C5_Wit ==
  \E t \in Workers :
    /\ phase = "active"
    /\ userPaused
    /\ pauseSnap # EmptyPool
    /\ pc[t] = "add_leave"
    /\ path[t] = "skip"
    /\ p[t] # NULL

\* C6: when Pause and Resume were never called, all hook calls made so far are
\* allocations that returned distinct blocks (one per thread, concurrently, or
\* more) and all have returned, the registry holds exactly one record per
\* returned block, with the size that call requested.
C6_Thm ==
  (phase = "active" /\ AllIdle /\ toggles = 0 /\ calls = Cardinality(DOMAIN owned))
    => memTrackerPool = [a \in DOMAIN owned |-> owned[a].size]

\* every thread made exactly one allocation and all of them returned
C6_Wit ==
  /\ phase = "active" /\ AllIdle
  /\ toggles = 0
  /\ calls = NumThreads
  /\ Cardinality(DOMAIN owned) = NumThreads

\* C7: a hook call nested in Add or Remove on the thread that holds critsec
\* enters without blocking and neither adds nor removes a record; the outer
\* call then leaves the registry changed by exactly its own record.
C7_Thm ==
  /\ ~innerTracked
  /\ \A t \in Workers :
       /\ pc[t] \in {"in_add", "id_rem"} => (lockOwner = t /\ CanEnter(t))
       /\ (pc[t] \in {"add_resume", "add_leave"} /\ path[t] = "new") =>
            (p[t] \notin DOMAIN entryPool
               /\ memTrackerPool = InsertOrAssign(entryPool, p[t], sz[t]))
       /\ (pc[t] \in {"rem_resume", "rem_leave"} /\ path[t] = "hit") =>
            (p[t] \in DOMAIN entryPool /\ memTrackerPool = Erase(entryPool, p[t]))

\* an Add that needed a node is about to return, with other records present
C7_Wit ==
  \E t \in Workers :
    /\ pc[t] = "add_leave"
    /\ path[t] = "new"
    /\ entryPool # EmptyPool

\* C8: under fair scheduling every hook, Pause and Resume call returns.
C8_Thm == \A t \in Workers : (pc[t] # "idle") ~> (pc[t] = "idle")

\* a thread is waiting for critsec while another thread is in a nested call
C8_Wit ==
  \E t, u \in Workers :
    /\ pc[t] \in {"add_enter", "rem_enter", "pause_enter", "resume_enter"}
    /\ lockOwner = u
    /\ u # t
    /\ pc[u] \in {"in_add", "id_rem"}

C10_Thm ==
  ReportDone =>
    /\ emptyAtReport = "yes" => report = <<Line("none", 0)>>
    /\ emptyAtReport = "no" =>
         /\ Len(report) >= 3
         /\ report[1] = Line("start", 0)
         /\ report[Len(report)].kind = "total"
         /\ \A i \in 2..(Len(report) - 1) : report[i].kind = "leak"

\* allocate, free, allocate, free, then teardown: nothing leaked
C10_Wit ==
  /\ pc[Main] = "done"
  /\ emptyAtReport = "yes"
  /\ toggles = 0
  /\ calls >= 2
  /\ brk >= 3
  /\ DOMAIN owned = {}

\* the current call of a thread changed the registry
Mutated(t) == path[t] \in {"new", "over", "hit"}

\* C11: once ~MemTracker has started, tracking stays suppressed: paused is TRUE
\* from then on, no call that entered a hook after that moment changes the
\* registry, and no nested call (the release of the registry's own storage
\* included) finds tracking active.
C11_Original ==
  phase \in {"reporting", "terminated"} =>
    /\ paused
    /\ \A t \in late : ~Mutated(t)
    /\ ~innerTracked

\* C11, the part about arriving calls alone: no call that entered a hook after
\* ~MemTracker had started changes the registry.
C11_LateCallsOnly ==
  phase \in {"reporting", "terminated"} => \A t \in late : ~Mutated(t)

\* C12: RemovePointer has completed before the block goes to free: when a
\* deallocation that found tracking active reaches free( pointer ), the
\* registry holds no record for that pointer; and, when tracking was never
\* paused, every address that has a record is a block that is still allocated.
C12_Thm ==
  /\ \A t \in Workers :
       (pc[t] = "del_free" /\ path[t] \in {"hit", "miss"}) =>
         p[t] \notin DOMAIN memTrackerPool
  /\ toggles = 0 => DOMAIN memTrackerPool \subseteq heap

\* a tracked deallocation is about to free its block; other records remain
C12_Wit ==
  \E t \in Workers :
    /\ pc[t] = "del_free"
    /\ path[t] = "hit"
    /\ p[t] \in heap
    /\ memTrackerPool # EmptyPool

\* positions between EnterCriticalSection and LeaveCriticalSection
InsidePcs ==
  {"add_check", "add_insert", "add_link", "add_resume", "add_leave",
   "rem_check", "rem_erase", "rem_resume", "rem_leave", "pause_set", "resume_set"}

\* thread t is inside a registry operation (its nested calls included)
Inside(t) ==
  \/ pc[t] \in InsidePcs
  \/ pc[t] \in {"in_malloc", "in_add", "id_rem", "id_free"} /\ cont[t] \in {"add_link", "rem_resume"}

\* C13: at most one thread is between acquiring and releasing critsec, and
\* that thread owns it.
C13_Thm ==
  /\ \A t, u \in All : (Inside(t) /\ Inside(u)) => t = u
  /\ \A t \in All : Inside(t) => lockOwner = t

\* one thread is inside Add or Remove while another waits to enter
C13_Wit ==
  \E t, u \in Workers :
    /\ t # u
    /\ pc[t] \in {"add_insert", "rem_erase"}
    /\ pc[u] \in {"add_enter", "rem_enter", "pause_enter", "resume_enter"}

\* positions whose next statement reads or writes paused: the constructor body,
\* the first statement of ~MemTracker (Main at "run"), the tests and
\* assignments in AddPointer / RemovePointer (nested ones included), Pause, Resume
FlagPcs ==
  {"ctor_body", "run", "add_check", "add_resume", "rem_check", "rem_resume",
   "pause_set", "resume_set", "in_add", "id_rem"}

\* thread t holds critsec while it executes its next statement (a nested
\* AddPointer / RemovePointer takes and releases critsec within its step)
HoldsLock(t) == lockOwner = t \/ (pc[t] \in {"in_add", "id_rem"} /\ CanEnter(t))

\* C14: every read and every write of paused, in AddPointer, RemovePointer,
\* Pause, Resume, the constructor and the destructor, is made by a thread that
\* holds critsec at that moment.
C14_Original ==
  [][\A t \in All : (pc[t] \in FlagPcs /\ pc'[t] # pc[t]) => HoldsLock(t)]_vars

\* C14, the accesses made by the worker threads alone (AddPointer,
\* RemovePointer, Pause, Resume): each is made holding critsec.
C14_WorkersOnly ==
  [][\A t \in Workers : (pc[t] \in FlagPcs /\ pc'[t] # pc[t]) => HoldsLock(t)]_vars

\* C15: the registry holds one record, in one node of its own, per address;
\* an Add for an address that already has a record leaves the registry equal
\* to what it was on entry except that this record carries the new size, and
\* writes no diagnostic.
C15_Thm ==
  /\ lockOwner = NoOwner =>
       /\ DOMAIN nodeOf = DOMAIN memTrackerPool
       /\ \A a, b \in DOMAIN nodeOf : nodeOf[a] = nodeOf[b] => a = b
  /\ \A t \in Workers :
       (pc[t] \in {"add_resume", "add_leave"} /\ path[t] = "over") =>
         /\ p[t] \in DOMAIN entryPool
         /\ memTrackerPool = InsertOrAssign(entryPool, p[t], sz[t])
         /\ diag[t] = 0

\* an Add has replaced a record that carried a different size
C15_Wit ==
  \E t \in Workers :
    /\ pc[t] = "add_leave"
    /\ path[t] = "over"
    /\ entryPool[p[t]] # sz[t]
    /\ memTrackerPool[p[t]] = sz[t]

\* thread t is in a hook call whose pointer is null (malloc failed, or
\* operator delete was given a null pointer)
NullCall(t) ==
  /\ p[t] = NULL
  /\ pc[t] \in {"add_enter", "add_check", "add_leave", "rem_enter", "rem_check", "rem_leave",
                "del_free", "add_insert", "rem_erase", "add_resume", "rem_resume"}

\* C16: AddPointer and RemovePointer with a null pointer are no-ops: no step of
\* such a call changes the registry or paused, the call goes from the test
\* straight to the release of the lock, and it writes no diagnostic.
C16_Thm ==
  [][\A t \in Workers :
       (NullCall(t) /\ pc'[t] # pc[t]) =>
          /\ memTrackerPool' = memTrackerPool
          /\ nodeOf' = nodeOf
          /\ paused' = paused
          /\ diag[t] = 0 /\ diag'[t] = 0
          /\ pc[t] = "add_check" => pc'[t] = "add_leave"
          /\ pc[t] = "rem_check" => pc'[t] = "rem_leave"]_vars

\* RemovePointer( NULL ) has passed its test with tracking active and records present
C16_Wit ==
  \E t \in Workers :
    /\ pc[t] = "rem_leave"
    /\ p[t] = NULL
    /\ ~paused
    /\ memTrackerPool # EmptyPool

\* C17: AddPointer and RemovePointer find, when they test the flag, and leave,
\* when they return, the tracking state set by the last Pause / Resume (active
\* when there was none): the suppression a call uses while it changes the
\* registry is over when the call returns, is never what another thread's call
\* finds, and never cancels a Pause.
C17_Thm ==
  phase = "active" =>
    \A t \in Workers :
      pc[t] \in {"add_check", "rem_check", "add_leave", "rem_leave"} => paused = userPaused

\* after an earlier Pause and Resume, an Add that inserted a record is about to
\* return with tracking active while another thread waits to enter
C17_Wit ==
  \E t, u \in Workers :
    /\ phase = "active"
    /\ pc[t] = "add_leave"
    /\ path[t] = "new"
    /\ ~paused
    /\ toggles >= 2
    /\ pc[u] \in {"add_enter", "rem_enter"}

\* C18: when Pause was never called, an Add that is about to insert its
\* pointer finds no record under it, also when malloc handed out an address
\* that was allocated and freed before: insert_or_assign never assigns.
C18_Thm ==
  toggles = 0 =>
    \A t \in Workers :
      /\ pc[t] = "add_insert" => p[t] \notin DOMAIN memTrackerPool
      /\ path[t] # "over"

\* address reuse: the first two calls allocated a block (with its node) and
\* deleted it, and the third call, an allocation, was handed one of those two
\* addresses again (nothing beyond them was ever handed out, nothing else is
\* allocated or in flight)
C18_Wit ==
  \E t \in Workers :
    /\ toggles = 0
    /\ pc[t] = "add_insert"
    /\ calls = 3
    /\ brk = 3
    /\ p[t] # NULL
    /\ heap = {storage, p[t]}
    /\ \A u \in Workers \ {t} : pc[u] = "idle"

\* C19: whenever no thread is inside the registry, tracking is suppressed
\* exactly when the last Pause / Resume call that took effect was a Pause (and
\* active when none was made), however many Pause or Resume calls came before
\* it and whichever threads made them.
C19_Thm ==
  (phase = "active" /\ lockOwner = NoOwner) => (paused = userPaused)

\* Pause, Pause, Resume: one Resume after two Pause calls, and tracking is active
C19_Wit ==
  /\ phase = "active"
  /\ lockOwner = NoOwner
  /\ pauseDepth = 2
  /\ ~userPaused
  /\ ~paused

\* C20: until the constructor body has run, tracking is suppressed, the
\* registry is empty and no nested hook call finds tracking active, so the
\* allocation made for the registry's own storage is not recorded; the registry
\* is still empty when tracking has become active and no call has been made.
C20_Thm ==
  /\ phase = "uninit" => (paused /\ memTrackerPool = EmptyPool /\ ~innerTracked)
  /\ (phase = "active" /\ calls = 0) => (memTrackerPool = EmptyPool /\ ~innerTracked)

\* the registry's storage has been allocated through operator new while the
\* tracker is still being constructed
C20_Wit ==
  /\ phase = "uninit"
  /\ pc[Main] = "ctor_store"
  /\ n[Main] # NULL
  /\ n[Main] \in heap
  /\ memTrackerPool = EmptyPool

====
